---- MODULE Spec2Model ----
(***************************************************************************)
(* The polling-and-booking engine of the e-konsulat TUI:                   *)
(*   - appReducer (use-app-state.tsx): the engine state and its actions;   *)
(*   - useSlotSearch (use-slot-search.ts): the search loop;                *)
(*   - useReservation (use-reservation.ts): the booking loop;              *)
(*   - AppContent / MonitoringView: which component is mounted.            *)
(*                                                                         *)
(* JavaScript runs each continuation to its next await without             *)
(* interruption, so one action of the model is one such run: a response    *)
(* arriving, a timer firing, a React commit (render + effects), a key      *)
(* press.  dispatch() hands the action to the reducer in dispatch order;   *)
(* the hooks see the new state only through their refs, which the effects  *)
(* of the next commit update.                                              *)
(***************************************************************************)
EXTENDS Integers, Sequences, FiniteSets, TLC

\* ---------------------------------------------------------------- bounds
\* CAPTCHA solutions the upstream answers (one per search iteration)
MaxSearch == 2
\* createReservation requests the upstream answers (with a ticket or an error)
MaxRes == 2
\* times MonitoringView is mounted
MaxMounts == 2
\* message fragments one thrown Error carries at most
MaxFragments == 2

Gens == 1..MaxMounts

\* ---------------------------------------------------------------- values
\* A slot is a record with a date; date 0 stands for a missing date.
Slot(d) == [date |-> d]

\* The slot lists a checkSlots response can carry.
SlotLists == {<<>>, <<Slot(2)>>, <<Slot(1), Slot(2)>>}

\* tokens: 0 is the empty / undefined token, n > 0 the token of the n-th
\* checkSlots response, -n the verified CAPTCHA token of the n-th solution.
NoToken == 0

\* idPlacowki of the upstream (any truthy number)
ConsulateId == 7

\* search.checkSlotsResult before the first UPDATE_SEARCH (undefined)
NoResult == [defined |-> FALSE, slots |-> <<>>, token |-> NoToken, consulateId |-> 0]

CheckSlotsResult(slots, token, consulateId) ==
    [defined |-> TRUE, slots |-> slots, token |-> token, consulateId |-> consulateId]

\* ---------------------------------------------------------------- errors
\* A thrown value: its class, its reason property ("" when it has none), its
\* name, and the fragments its lower-cased message contains.
ErrorValue(cls, reason, name, msg) ==
    [cls |-> cls, reason |-> reason, name |-> name, msg |-> msg]

SlotUnavailableError ==
    ErrorValue("SlotUnavailableError", "SLOT_UNAVAILABLE", "SlotUnavailableError", {})

ApiError(reason) == ErrorValue("ApiError", reason, "ApiError", {})

HardLimitError == ApiError("LIMIT_Z_JEDNEGO_IP_PRZEKROCZONY")

InvalidTokenError == ApiError("NIEPRAWIDLOWY_TOKEN")

\* new Error(`... timeout after 30000ms`): what the client throws on abort
TimeoutError == ErrorValue("Error", "", "Error", {"timeout"})

\* new Error('CAPTCHA verification failed')
CaptchaError == ErrorValue("Error", "", "Error", {"captcha"})

\* new Error('Failed to check slots: HTTP 429 Too Many Requests')
SoftLimitError == ErrorValue("Error", "", "Error", {"429", "too many", "http"})

\* new Error('Failed to fetch consulate details: HTTP 500 Internal Server Error')
DetailsError == ErrorValue("Error", "", "Error", {"fetch", "http"})

\* new Error('Invalid reservation response: missing required fields')
MissingTicketError == ErrorValue("Error", "", "Error", {})

\* no error: the operation returned
NoError == ErrorValue("none", "", "", {})

\* the substrings classifyError looks for in the lower-cased message
Fragments ==
    {"limit_z_jednego_ip", "429", "too many", "timeout", "captcha", "403",
     "network", "fetch", "econnrefused", "enotfound", "http", "status"}

\* ErrorType
ErrorTypes ==
    {"rate_limit_hard", "rate_limit_soft", "network", "timeout", "api", "captcha",
     "slot_unavailable", "unknown"}

\* ApiErrorReason values the upstream sends
Reasons == {"LIMIT_Z_JEDNEGO_IP_PRZEKROCZONY", "NIEPRAWIDLOWY_TOKEN", "TERMIN_ZAJETY"}

isHardRateLimit(error) ==
    IF error.cls = "ApiError"
    THEN error.reason = "LIMIT_Z_JEDNEGO_IP_PRZEKROCZONY"
    ELSE IF error.cls # "NonObject" /\ error.reason # ""
         THEN error.reason = "LIMIT_Z_JEDNEGO_IP_PRZEKROCZONY"
         ELSE FALSE

\* classifyError without its `instanceof Error` test: reading the message of a
\* value that has none throws a TypeError
classifyErrorNoInstanceCheck(error) ==
    LET has(f) == f \in error.msg IN
    IF error.cls = "SlotUnavailableError" THEN "slot_unavailable"
    ELSE IF error.cls = "ApiError"
    THEN (IF error.reason = "LIMIT_Z_JEDNEGO_IP_PRZEKROCZONY"
          THEN "rate_limit_hard" ELSE "api")
    ELSE IF error.cls # "Error" THEN "throws"
    ELSE IF has("limit_z_jednego_ip") THEN "rate_limit_hard"
    ELSE IF has("429") \/ has("too many") THEN "rate_limit_soft"
    ELSE IF has("timeout") \/ error.name = "TimeoutError" \/ error.name = "AbortError"
    THEN "timeout"
    ELSE IF has("captcha")
    THEN (IF has("403") THEN "rate_limit_soft" ELSE "captcha")
    ELSE IF has("network") \/ has("fetch") \/ has("econnrefused") \/ has("enotfound")
    THEN "network"
    ELSE IF has("http") \/ has("status")
    THEN (IF has("403") THEN "rate_limit_soft" ELSE "api")
    ELSE "unknown"

\* classifyError with the CAPTCHA test moved before the timeout test
classifyErrorCaptchaFirst(error) ==
    LET has(f) == f \in error.msg IN
    IF error.cls = "SlotUnavailableError" THEN "slot_unavailable"
    ELSE IF error.cls = "ApiError"
    THEN (IF error.reason = "LIMIT_Z_JEDNEGO_IP_PRZEKROCZONY"
          THEN "rate_limit_hard" ELSE "api")
    ELSE IF error.cls # "Error" THEN "unknown"
    ELSE IF has("limit_z_jednego_ip") THEN "rate_limit_hard"
    ELSE IF has("429") \/ has("too many") THEN "rate_limit_soft"
    ELSE IF has("captcha")
    THEN (IF has("403") THEN "rate_limit_soft" ELSE "captcha")
    ELSE IF has("timeout") \/ error.name = "TimeoutError" \/ error.name = "AbortError"
    THEN "timeout"
    ELSE IF has("network") \/ has("fetch") \/ has("econnrefused") \/ has("enotfound")
    THEN "network"
    ELSE IF has("http") \/ has("status")
    THEN (IF has("403") THEN "rate_limit_soft" ELSE "api")
    ELSE "unknown"

classifyError(error) ==
    LET has(f) == f \in error.msg IN
    IF error.cls = "SlotUnavailableError" THEN "slot_unavailable"
    ELSE IF error.cls = "ApiError"
    THEN (IF error.reason = "LIMIT_Z_JEDNEGO_IP_PRZEKROCZONY"
          THEN "rate_limit_hard" ELSE "api")
    ELSE IF error.cls # "Error" THEN "unknown"
    ELSE IF has("limit_z_jednego_ip") THEN "rate_limit_hard"
    ELSE IF has("429") \/ has("too many") THEN "rate_limit_soft"
    ELSE IF has("timeout") \/ error.name = "TimeoutError" \/ error.name = "AbortError"
    THEN "timeout"
    ELSE IF has("captcha")
    THEN (IF has("403") THEN "rate_limit_soft" ELSE "captcha")
    ELSE IF has("network") \/ has("fetch") \/ has("econnrefused") \/ has("enotfound")
    THEN "network"
    ELSE IF has("http") \/ has("status")
    THEN (IF has("403") THEN "rate_limit_soft" ELSE "api")
    ELSE "unknown"

\* The ErrorLog entry; the model keeps its type.
createErrorLog(error) == classifyError(error)

\* ---------------------------------------------------------------- client
\* the client operations the loops use
Operations == {"requestCaptcha", "verifyCaptcha", "checkSlots", "createReservation"}

\* What happens to a request: a 2xx answer with or without the expected payload
\* (the ticket, the CAPTCHA image, ok = true), a non-2xx answer with a status and a
\* reason in its body, or fetch rejecting with an AbortError or a TimeoutError.
Outcome(kind, status, reason) == [kind |-> kind, status |-> status, reason |-> reason]

NoOutcome == Outcome("none", "", "")

Outcomes ==
    {Outcome("ok", "200", ""), Outcome("noPayload", "200", ""),
     Outcome("AbortError", "", ""), Outcome("TimeoutError", "", "")}
    \cup {Outcome("http", s, r) : s \in {"400", "403", "429", "500"},
                                   r \in Reasons \cup {""}}

\* fragments of `HTTP ${response.status} ${response.statusText}`
StatusFragments(status) ==
    {"http"} \cup (CASE status = "403" -> {"403"}
                    [] status = "429" -> {"429", "too many"}
                    [] OTHER -> {})

\* fragments of the text each operation puts before the status
FailedFragments(op) ==
    CASE op = "requestCaptcha" -> {"fetch", "captcha"}
      [] op = "verifyCaptcha" -> {"captcha"}
      [] OTHER -> {}

\* fragments of `... timeout after ${Client.requestTimeout}ms`
TimeoutFragments(op) ==
    IF op \in {"requestCaptcha", "verifyCaptcha"}
    THEN {"captcha", "timeout"} ELSE {"timeout"}

\* the error the operation raises for an outcome, NoError when it returns
ClientError(op, o) ==
    CASE o.kind = "ok" -> NoError
      [] o.kind = "noPayload" ->
           (CASE op = "requestCaptcha" -> ErrorValue("Error", "", "Error", {"captcha"})
              [] op = "verifyCaptcha" -> CaptchaError
              [] op = "checkSlots" -> NoError
              [] op = "createReservation" -> MissingTicketError)
      [] o.kind = "http" ->
           ErrorValue("Error", "", "Error",
                      FailedFragments(op) \cup StatusFragments(o.status))
      [] o.kind \in {"AbortError", "TimeoutError"} ->
           ErrorValue("Error", "", "Error", TimeoutFragments(op))

\* what the catch block of attemptReservation does after logging the error
reservationErrorBranch(error) ==
    IF isHardRateLimit(error) THEN "stop"
    ELSE IF error.cls = "SlotUnavailableError" THEN "next_slot"
    ELSE "retry"

\* what the catch block of runSearch does after logging the error
searchErrorBranch(error) ==
    IF isHardRateLimit(error) THEN "stop" ELSE "retry"

\* ---------------------------------------------------------------- engine state
initialSearchState ==
    [isRunning |-> FALSE, attempts |-> 0, lastAttempt |-> FALSE, slots |-> <<>>,
     currentToken |-> NoToken, checkSlotsResult |-> NoResult, errors |-> <<>>]

initialReservationState ==
    [isRunning |-> FALSE, attempts |-> 0, currentSlotIndex |-> 0, result |-> 0,
     consulateDetails |-> FALSE, errors |-> <<>>]

initialStatsState == [startTime |-> FALSE, captchaAttempts |-> 0, captchaFailures |-> 0]

initialState ==
    [phase |-> "params", params |-> FALSE, search |-> initialSearchState,
     reservation |-> initialReservationState, stats |-> initialStatsState]

\* the slots of a list that carry a date, in order
DatedSlots(slots) == SelectSeq(slots, LAMBDA s : s.date # 0)

countAvailableSlots(slots) == Len(DatedSlots(slots))

Min(a, b) == IF a < b THEN a ELSE b

ReduceSetParams(s, a) == [s EXCEPT !.params = TRUE]

ReduceStartSearch(s, a) ==
    [s EXCEPT !.phase = "searching",
              !.search.isRunning = TRUE,
              !.search.attempts = 0,
              !.search.lastAttempt = FALSE,
              !.search.slots = <<>>,
              !.search.errors = <<>>,
              !.stats.startTime = TRUE]

\* UPDATE_SEARCH as it would be if the reducer kept the first checkSlotsResult and
\* replaced only slots and currentToken: the slot list and the result's token then
\* come from different responses.
ReduceUpdateSearchKeepsResult(s, a) ==
    LET slotCount == countAvailableSlots(a.slots)
        hasNewToken == s.search.currentToken # a.token
        nextSlotIndex == IF slotCount = 0 THEN 0
                         ELSE IF hasNewToken THEN 0
                         ELSE Min(s.reservation.currentSlotIndex, slotCount - 1)
    IN [s EXCEPT !.search.slots = a.slots,
                 !.search.currentToken = a.token,
                 !.search.checkSlotsResult =
                     IF @.defined THEN @ ELSE a.checkSlotsResult,
                 !.search.lastAttempt = TRUE,
                 !.reservation.currentSlotIndex = nextSlotIndex]

\* UPDATE_SEARCH as it would be if an empty slot list moved a booking back to
\* the search
ReduceUpdateSearchLeavesBooking(s, a) ==
    LET slotCount == countAvailableSlots(a.slots)
        hasNewToken == s.search.currentToken # a.token
        nextSlotIndex == IF slotCount = 0 THEN 0
                         ELSE IF hasNewToken THEN 0
                         ELSE Min(s.reservation.currentSlotIndex, slotCount - 1)
    IN [s EXCEPT !.phase = IF @ = "booking" /\ slotCount = 0 THEN "searching" ELSE @,
                 !.search.slots = a.slots,
                 !.search.currentToken = a.token,
                 !.search.checkSlotsResult = a.checkSlotsResult,
                 !.search.lastAttempt = TRUE,
                 !.reservation.currentSlotIndex = nextSlotIndex]

\* UPDATE_SEARCH as it would be if the index were kept whenever the token is
\* the same
ReduceUpdateSearchKeepsIndex(s, a) ==
    LET slotCount == countAvailableSlots(a.slots)
        hasNewToken == s.search.currentToken # a.token
        nextSlotIndex == IF slotCount = 0 THEN 0
                         ELSE IF hasNewToken THEN 0
                         ELSE s.reservation.currentSlotIndex
    IN [s EXCEPT !.search.slots = a.slots,
                 !.search.currentToken = a.token,
                 !.search.checkSlotsResult = a.checkSlotsResult,
                 !.search.lastAttempt = TRUE,
                 !.reservation.currentSlotIndex = nextSlotIndex]

ReduceUpdateSearch(s, a) ==
    LET slotCount == countAvailableSlots(a.slots)
        hasNewToken == s.search.currentToken # a.token
        nextSlotIndex == IF slotCount = 0 THEN 0
                         ELSE IF hasNewToken THEN 0
                         ELSE Min(s.reservation.currentSlotIndex, slotCount - 1)
    IN [s EXCEPT !.search.slots = a.slots,
                 !.search.currentToken = a.token,
                 !.search.checkSlotsResult = a.checkSlotsResult,
                 !.search.lastAttempt = TRUE,
                 !.reservation.currentSlotIndex = nextSlotIndex]

ReduceIncrementSearchAttempt(s, a) ==
    [s EXCEPT !.search.attempts = @ + 1, !.search.lastAttempt = TRUE]

ReduceLogSearchError(s, a) ==
    [s EXCEPT !.search.errors = Append(@, a.error),
              !.stats.captchaFailures = IF a.error = "captcha" THEN @ + 1 ELSE @]

\* START_RESERVATION as it would be if it kept reservation.attempts
ReduceStartReservationKeepsAttempts(s, a) ==
    [s EXCEPT !.phase = "booking",
              !.reservation.isRunning = TRUE,
              !.reservation.currentSlotIndex = 0,
              !.reservation.consulateDetails = a.consulateDetails,
              !.reservation.errors = <<>>]

ReduceStartReservation(s, a) ==
    [s EXCEPT !.phase = "booking",
              !.reservation.isRunning = TRUE,
              !.reservation.attempts = 0,
              !.reservation.currentSlotIndex = 0,
              !.reservation.consulateDetails = a.consulateDetails,
              !.reservation.errors = <<>>]

ReduceIncrementReservationAttempt(s, a) ==
    [s EXCEPT !.reservation.attempts = @ + 1]

ReduceTryNextSlot(s, a) ==
    LET slotCount == countAvailableSlots(s.search.slots)
        nextIndex == IF slotCount > 0
                     THEN (s.reservation.currentSlotIndex + 1) % slotCount
                     ELSE 0
    IN [s EXCEPT !.reservation.currentSlotIndex = nextIndex]

ReduceLogReservationError(s, a) ==
    [s EXCEPT !.reservation.errors = Append(@, a.error),
              !.stats.captchaFailures = IF a.error = "captcha" THEN @ + 1 ELSE @]

ReduceIncrementCaptchaAttempt(s, a) ==
    [s EXCEPT !.stats.captchaAttempts = @ + 1]

ReduceIncrementCaptchaFailure(s, a) ==
    [s EXCEPT !.stats.captchaFailures = @ + 1]

\* RESERVATION_SUCCESS as it would be if it left search.isRunning alone
ReduceReservationSuccessKeepsSearching(s, a) ==
    [s EXCEPT !.phase = "success",
              !.reservation.isRunning = FALSE,
              !.reservation.result = a.result]

\* RESERVATION_SUCCESS as it would be if it left reservation.isRunning alone
ReduceReservationSuccessKeepsBooking(s, a) ==
    [s EXCEPT !.phase = "success",
              !.search.isRunning = FALSE,
              !.reservation.result = a.result]

ReduceReservationSuccess(s, a) ==
    [s EXCEPT !.phase = "success",
              !.search.isRunning = FALSE,
              !.reservation.isRunning = FALSE,
              !.reservation.result = a.result]

ReduceStopAll(s, a) ==
    [s EXCEPT !.search.isRunning = FALSE, !.reservation.isRunning = FALSE]

appReducer(s, a) ==
    CASE a.type = "SET_PARAMS" -> ReduceSetParams(s, a)
      [] a.type = "START_SEARCH" -> ReduceStartSearch(s, a)
      [] a.type = "UPDATE_SEARCH" -> ReduceUpdateSearch(s, a)
      [] a.type = "INCREMENT_SEARCH_ATTEMPT" -> ReduceIncrementSearchAttempt(s, a)
      [] a.type = "LOG_SEARCH_ERROR" -> ReduceLogSearchError(s, a)
      [] a.type = "START_RESERVATION" -> ReduceStartReservation(s, a)
      [] a.type = "INCREMENT_RESERVATION_ATTEMPT" -> ReduceIncrementReservationAttempt(s, a)
      [] a.type = "TRY_NEXT_SLOT" -> ReduceTryNextSlot(s, a)
      [] a.type = "LOG_RESERVATION_ERROR" -> ReduceLogReservationError(s, a)
      [] a.type = "INCREMENT_CAPTCHA_ATTEMPT" -> ReduceIncrementCaptchaAttempt(s, a)
      [] a.type = "INCREMENT_CAPTCHA_FAILURE" -> ReduceIncrementCaptchaFailure(s, a)
      [] a.type = "RESERVATION_SUCCESS" -> ReduceReservationSuccess(s, a)
      [] a.type = "STOP_ALL" -> ReduceStopAll(s, a)
      [] a.type = "RESET" -> initialState
      [] OTHER -> s


\* ---------------------------------------------------------------- variables
VARIABLES
    state,               \* the reducer's state (useReducer in AppProvider)
    dirty,               \* a dispatch has happened that React has not committed yet
    view,                \* what AppContent renders: "params", "monitor" or "success"
    cur,                 \* the mounted MonitoringView (its generation), 0 when none
    mounts,              \* MonitoringView instances mounted so far
    stateRef,            \* useReservation: stateRef.current, per instance
    phaseRef,            \* useSlotSearch: phaseRef.current, per instance
    searchIsRunningRef,  \* useSlotSearch: isRunningRef.current
    searchAbortRef,      \* useSlotSearch: abortRef.current is non-null
    searchProc,          \* where the instance's runSearch is suspended
    resIsRunningRef,     \* useReservation: isRunningRef.current
    resAbortRef,         \* useReservation: the request abortRef.current controls, 0 = null
    calls,               \* createReservation requests in flight
    sleepers,            \* booking loops suspended in a sleep, per instance and sleep
    pendingDetails,      \* getConsulateDetails requests in flight, per instance
    nCaptcha,            \* CAPTCHA solutions answered so far
    nRes,                \* createReservation requests the upstream has answered so far
    results,             \* history: the results checkSlots has returned
    nSuccess,            \* history: RESERVATION_SUCCESS actions applied
    firstResult,         \* history: result of the first successful createReservation
    hardSeen,            \* history: a loop has handled a hard rate limit
    upstream,            \* what the upstream answers in this run
    probe                \* one failure followed from the upstream answer to its class

vars == <<state, dirty, view, cur, mounts, stateRef, phaseRef, searchIsRunningRef,
          searchAbortRef, searchProc, resIsRunningRef, resAbortRef, calls, sleepers,
          pendingDetails, nCaptcha, nRes, results, nSuccess, firstResult, hardSeen,
          upstream, probe>>

\* The part of the state one run of JavaScript can change, as one record.
World ==
    [state |-> state, dirty |-> dirty, stateRef |-> stateRef, phaseRef |-> phaseRef,
     sRun |-> searchIsRunningRef, sAbort |-> searchAbortRef, sProc |-> searchProc,
     rRun |-> resIsRunningRef, rAbort |-> resAbortRef, calls |-> calls,
     sleepers |-> sleepers, details |-> pendingDetails, results |-> results,
     nSuccess |-> nSuccess, firstResult |-> firstResult, hardSeen |-> hardSeen]

Install(w) ==
    /\ state' = w.state
    /\ dirty' = w.dirty
    /\ stateRef' = w.stateRef
    /\ phaseRef' = w.phaseRef
    /\ searchIsRunningRef' = w.sRun
    /\ searchAbortRef' = w.sAbort
    /\ searchProc' = w.sProc
    /\ resIsRunningRef' = w.rRun
    /\ resAbortRef' = w.rAbort
    /\ calls' = w.calls
    /\ sleepers' = w.sleepers
    /\ pendingDetails' = w.details
    /\ results' = w.results
    /\ nSuccess' = w.nSuccess
    /\ firstResult' = w.firstResult
    /\ hardSeen' = w.hardSeen

\* dispatch(action): the reducer runs on the actions in dispatch order.
dispatch(w, a) ==
    [w EXCEPT !.state = appReducer(@, a),
              !.dirty = TRUE,
              !.nSuccess = IF a.type = "RESERVATION_SUCCESS" THEN @ + 1 ELSE @]

Action(type) == [type |-> type]

\* ---------------------------------------------------------------- useSlotSearch
IdleProc == [pc |-> "none", aborted |-> FALSE, captchaToken |-> NoToken]

\* stop(): the in-flight checkSlots holds the signal of the controller in abortRef
searchStop(w, g) ==
    [w EXCEPT !.sRun[g] = FALSE,
              !.sProc[g].aborted = @ \/ (w.sAbort[g] /\ w.sProc[g].pc = "checkSlots"),
              !.sAbort[g] = FALSE]

\* leaving the while loop: isRunningRef.current = false, runSearch returns
searchBreak(w, g) ==
    [w EXCEPT !.sRun[g] = FALSE, !.sProc[g] = [IdleProc EXCEPT !.pc = "done"]]

\* the loop condition and the iteration up to `await client.completeCaptcha()`
searchLoopTop(w, g) ==
    IF w.sRun[g] /\ w.phaseRef[g] # "success"
    THEN LET w1 == [w EXCEPT !.sAbort[g] = TRUE]
             w2 == dispatch(w1, Action("INCREMENT_SEARCH_ATTEMPT"))
             w3 == dispatch(w2, Action("INCREMENT_CAPTCHA_ATTEMPT"))
         IN [w3 EXCEPT !.sProc[g] = [IdleProc EXCEPT !.pc = "captcha"]]
    ELSE searchBreak(w, g)

runSearch(w, g) ==
    IF w.sRun[g] \/ w.phaseRef[g] = "success"
    THEN w
    ELSE LET w1 == [w EXCEPT !.sRun[g] = TRUE, !.phaseRef[g] = "searching"]
         IN searchLoopTop(dispatch(w1, Action("START_SEARCH")), g)

\* the catch block as it would be if the hard rate limit were tested before the
\* error is logged
searchCatchHardLimitFirst(w, g, error) ==
    IF ~w.sRun[g] \/ w.phaseRef[g] = "success"
    THEN searchBreak(searchStop(w, g), g)
    ELSE IF searchErrorBranch(error) = "stop"
    THEN searchBreak(searchStop([w EXCEPT !.hardSeen = TRUE], g), g)
    ELSE LET w1 == dispatch(w, [type |-> "LOG_SEARCH_ERROR", error |-> createErrorLog(error)])
         IN [w1 EXCEPT !.sProc[g].pc = "sleep"]

\* the catch block as it would be if every logged failure ended the loop
searchCatchGivesUp(w, g, error) ==
    IF ~w.sRun[g] \/ w.phaseRef[g] = "success"
    THEN searchBreak(searchStop(w, g), g)
    ELSE LET w1 == dispatch(w, [type |-> "LOG_SEARCH_ERROR", error |-> createErrorLog(error)])
         IN searchBreak(searchStop([w1 EXCEPT !.hardSeen =
                                        @ \/ searchErrorBranch(error) = "stop"], g), g)

\* the catch block of the iteration
searchCatch(w, g, error) ==
    IF ~w.sRun[g] \/ w.phaseRef[g] = "success"
    THEN searchBreak(searchStop(w, g), g)
    ELSE LET w1 == dispatch(w, [type |-> "LOG_SEARCH_ERROR", error |-> createErrorLog(error)])
         IN IF searchErrorBranch(error) = "stop"
            THEN searchBreak(searchStop([w1 EXCEPT !.hardSeen = TRUE], g), g)
            ELSE [w1 EXCEPT !.sProc[g].pc = "sleep"]

\* completeCaptcha resolved with a verified token
searchAfterCaptcha(w, g, captchaToken) ==
    IF ~w.sRun[g]
    THEN searchBreak(w, g)
    ELSE [w EXCEPT !.sProc[g] = [pc |-> "checkSlots", aborted |-> FALSE,
                                  captchaToken |-> captchaToken]]

\* checkSlots resolved with a result
searchAfterCheckSlots(w, g, result) ==
    IF ~w.sRun[g] \/ w.phaseRef[g] = "success"
    THEN searchBreak(searchStop(w, g), g)
    ELSE LET token == IF result.token # NoToken THEN result.token
                      ELSE w.sProc[g].captchaToken
             w1 == dispatch(w, [type |-> "UPDATE_SEARCH", slots |-> result.slots,
                                token |-> token, checkSlotsResult |-> result])
         IN [w1 EXCEPT !.sProc[g].pc = "sleep"]


\* ---------------------------------------------------------------- useReservation
\* a fresh identity for a request and its AbortController
NewCallId(w) ==
    CHOOSE k \in 1..(Cardinality(w.calls) + 1) :
        /\ k \notin {c.id : c \in w.calls}
        /\ \A j \in 1..(k - 1) : j \in {c.id : c \in w.calls}

\* stop(): abort the request abortRef controls, if any
resStop(w, g) ==
    [w EXCEPT !.rRun[g] = FALSE,
              !.calls = {IF c.id = w.rAbort[g] THEN [c EXCEPT !.aborted = TRUE] ELSE c
                         : c \in w.calls},
              !.rAbort[g] = 0]

\* `await sleep(100)` at the end of an iteration (or while waiting for slots)
sleepInLoop(w, g) == [w EXCEPT !.sleepers[g].loop = @ + 1]

\* `await sleep(RETRY_DELAY)` / `await sleep(SLOT_SWITCH_DELAY)` in the catch block
sleepAfterError(w, g) == [w EXCEPT !.sleepers[g].err = @ + 1]

\* attemptReservation up to `await client.createReservation(...)`; when it returns
\* false without awaiting, the loop goes on to its `await sleep(100)`.
attemptReservation(w, g) ==
    LET currentState == w.stateRef[g]
        search == currentState.search
        slots == DatedSlots(search.slots)
        slotIndex == currentState.reservation.currentSlotIndex
    IN IF currentState.phase = "success"
       THEN [resStop(w, g) EXCEPT !.rRun[g] = FALSE]
       ELSE IF search.checkSlotsResult.token = NoToken \/ ~currentState.params
       THEN sleepInLoop(w, g)
       ELSE IF Len(slots) = 0
       THEN sleepInLoop(w, g)
       ELSE IF slotIndex >= Len(slots)
       THEN sleepInLoop(w, g)
       ELSE LET id == NewCallId(w)
                call == [id |-> id, gen |-> g,
                         date |-> slots[slotIndex + 1].date,
                         token |-> search.checkSlotsResult.token,
                         slotIndex |-> slotIndex,
                         aborted |-> FALSE,
                         published |-> w.state.search.currentToken]
                w1 == [w EXCEPT !.rAbort[g] = id]
                w2 == dispatch(w1, Action("INCREMENT_RESERVATION_ATTEMPT"))
            IN [w2 EXCEPT !.calls = @ \cup {call}]

\* the while loop of runReservationLoop from its condition to the next await
resLoopTop(w, g) ==
    LET currentState == w.stateRef[g] IN
    IF ~(w.rRun[g] /\ currentState.phase # "success")
    THEN [w EXCEPT !.rRun[g] = FALSE]
    ELSE IF Len(currentState.search.slots) = 0
    THEN sleepInLoop(w, g)
    ELSE attemptReservation(w, g)

runReservationLoop(w, g) ==
    IF w.rRun[g]
    THEN w
    ELSE resLoopTop([w EXCEPT !.rRun[g] = TRUE], g)

\* createReservation resolved: stop(), RESERVATION_SUCCESS, the loop ends
resAfterSuccess(w, g, result) ==
    LET w1 == resStop(w, g)
        w2 == dispatch(w1, [type |-> "RESERVATION_SUCCESS", result |-> result])
    IN [w2 EXCEPT !.rRun[g] = FALSE,
                  !.firstResult = IF @ = 0 THEN result ELSE @]

\* createReservation rejected: the catch block up to its sleep or return
resCatch(w, g, error) ==
    IF w.stateRef[g].phase = "success"
    THEN [resStop(w, g) EXCEPT !.rRun[g] = FALSE]
    ELSE LET w1 == dispatch(w, [type |-> "LOG_RESERVATION_ERROR",
                                error |-> createErrorLog(error)])
             branch == reservationErrorBranch(error)
         IN IF branch = "stop"
            THEN sleepInLoop(resStop([w1 EXCEPT !.hardSeen = TRUE], g), g)
            ELSE IF branch = "next_slot"
            THEN sleepAfterError(dispatch(w1, Action("TRY_NEXT_SLOT")), g)
            ELSE sleepAfterError(w1, g)

\* after the catch block's sleep attemptReservation returns false: line 170
resAfterErrorSleep(w, g) ==
    IF w.stateRef[g].phase = "success"
    THEN [w EXCEPT !.rRun[g] = FALSE]
    ELSE sleepInLoop(w, g)

\* .then of getConsulateDetails
detailsThen(w, g) ==
    runReservationLoop(
        dispatch(w, [type |-> "START_RESERVATION", consulateDetails |-> TRUE]), g)

\* .catch of getConsulateDetails
detailsCatch(w, g, error) ==
    dispatch(w, [type |-> "LOG_RESERVATION_ERROR", error |-> createErrorLog(error)])

\* ---------------------------------------------------------------- effects
\* MonitoringView: the `enabled` option of useSlotSearch
searchEnabled(s) == s.phase = "searching" \/ s.phase = "booking"

\* MonitoringView: the `enabled` option of useReservation
resEnabled(s) == Len(s.search.slots) > 0

\* the dependency list of the start effect of useReservation
resStartDeps(s) ==
    <<resEnabled(s), Len(s.search.slots), s.phase, s.reservation.consulateDetails,
      s.search.checkSlotsResult.consulateId, s.params>>

\* useSlotSearch: "Update phase ref when state changes"
searchPhaseEffect(w, g, s) ==
    LET w1 == [w EXCEPT !.phaseRef[g] = s.phase]
    IN IF s.phase = "success" THEN searchStop(w1, g) ELSE w1

\* useSlotSearch: "Start/stop search based on enabled prop"
searchStartEffect(w, g, s) ==
    IF w.phaseRef[g] = "success"
    THEN searchStop(w, g)
    ELSE IF searchEnabled(s) /\ ~w.sRun[g] /\ w.phaseRef[g] # "success"
    THEN runSearch(w, g)
    ELSE IF ~searchEnabled(s) /\ w.sRun[g]
    THEN searchStop(w, g)
    ELSE w

\* useReservation: "Keep a ref of the latest state"
stateRefEffect(w, g, s) == [w EXCEPT !.stateRef[g] = s]

\* useReservation: "Start reservation when enabled and we have slots"
resStartEffect(w, g, s) ==
    IF s.phase = "success"
    THEN resStop(w, g)
    ELSE IF resEnabled(s) /\ Len(s.search.slots) > 0 /\ ~w.rRun[g]
    THEN IF /\ ~s.reservation.consulateDetails
            /\ s.search.checkSlotsResult.consulateId # 0
            /\ s.params
         THEN [w EXCEPT !.details[g] = @ + 1]
         ELSE IF s.reservation.consulateDetails
         THEN runReservationLoop(w, g)
         ELSE w
    ELSE w

\* AppContent: the component rendered for a state
ViewOf(s) ==
    IF s.phase = "params" THEN "params"
    ELSE IF /\ s.phase = "success"
            /\ s.reservation.result # 0
            /\ s.search.checkSlotsResult.defined
            /\ s.reservation.consulateDetails
    THEN "success"
    ELSE "monitor"

\* MonitoringView mounts: fresh refs, then every effect in hook order
mountEffects(w, g, s) ==
    LET w0 == [w EXCEPT !.stateRef[g] = s, !.phaseRef[g] = s.phase]
        w1 == searchPhaseEffect(w0, g, s)
        w2 == searchStartEffect(w1, g, s)
        w3 == stateRefEffect(w2, g, s)
    IN resStartEffect(w3, g, s)

\* MonitoringView re-renders: cleanups of the effects whose dependencies changed,
\* then those effects, in hook order. The start effect of useReservation returns
\* no cleanup from a run that saw phase = success.
updateEffects(w, g, s) ==
    LET prev == w.stateRef[g]
        phaseDep == prev.phase # s.phase
        startDep == searchEnabled(prev) # searchEnabled(s)
        resDep == resStartDeps(prev) # resStartDeps(s)
        c1 == IF startDep THEN searchStop(w, g) ELSE w
        c2 == IF resDep /\ prev.phase # "success" THEN resStop(c1, g) ELSE c1
        w1 == IF phaseDep THEN searchPhaseEffect(c2, g, s) ELSE c2
        w2 == IF startDep THEN searchStartEffect(w1, g, s) ELSE w1
        w3 == stateRefEffect(w2, g, s)
    IN IF resDep THEN resStartEffect(w3, g, s) ELSE w3

\* MonitoringView unmounts: the cleanups of both start effects
unmountEffects(w, g) ==
    LET c1 == searchStop(w, g)
    IN IF w.stateRef[g].phase # "success" THEN resStop(c1, g) ELSE c1


\* ---------------------------------------------------------------- inputs
\* what a rejected CAPTCHA solve, checkSlots and createReservation can throw
CaptchaErrors == {CaptchaError}

CheckSlotsErrors == {HardLimitError, SoftLimitError}

ReservationErrors == {SlotUnavailableError, HardLimitError, InvalidTokenError}

\* the token field of the n-th checkSlots response
ResponseTokens(n) == IF upstream.emptyTokens THEN {n, NoToken} ELSE {n}

\* ---------------------------------------------------------------- Init
NoSleepers == [loop |-> 0, err |-> 0]

\* no failure is being followed
NoProbe ==
    [stage |-> "none", op |-> "", outcome |-> NoOutcome, error |-> NoError,
     type |-> "", hard |-> FALSE, branch |-> ""]

\* how many CAPTCHA solutions and createReservation requests the upstream
\* answers, whether checkSlots may answer without a token, and the errors it
\* rejects a createReservation request with
Upstream(searches, reservations, emptyTokens, reservationErrors) ==
    [searches |-> searches, reservations |-> reservations, emptyTokens |-> emptyTokens,
     reservationErrors |-> reservationErrors]

InitHooks ==
    /\ state = initialState
    /\ dirty = FALSE
    /\ view = "params"
    /\ cur = 0
    /\ mounts = 0
    /\ stateRef = [g \in Gens |-> initialState]
    /\ phaseRef = [g \in Gens |-> "params"]
    /\ searchIsRunningRef = [g \in Gens |-> FALSE]
    /\ searchAbortRef = [g \in Gens |-> FALSE]
    /\ searchProc = [g \in Gens |-> IdleProc]
    /\ resIsRunningRef = [g \in Gens |-> FALSE]
    /\ resAbortRef = [g \in Gens |-> 0]
    /\ calls = {}
    /\ sleepers = [g \in Gens |-> NoSleepers]
    /\ pendingDetails = [g \in Gens |-> 0]
    /\ nCaptcha = 0
    /\ nRes = 0
    /\ results = {}
    /\ nSuccess = 0
    /\ firstResult = 0
    /\ hardSeen = FALSE

InitEngine == InitHooks /\ upstream = Upstream(MaxSearch, MaxRes, FALSE, ReservationErrors)

Init == InitEngine /\ probe = NoProbe

\* ---------------------------------------------------------------- actions
\* ParamSelector calls onComplete: AppContent.handleParamsComplete
SelectParams ==
    /\ view = "params"
    /\ Install(dispatch(dispatch(World, Action("SET_PARAMS")), Action("START_SEARCH")))
    /\ UNCHANGED <<probe, upstream, view, cur, mounts, nCaptcha, nRes>>

\* React renders the pending state and runs the effects of the commit
Commit ==
    /\ dirty
    /\ LET s == state
           w == [World EXCEPT !.dirty = FALSE]
       IN IF ViewOf(s) = "monitor"
          THEN IF cur # 0
               THEN /\ Install(updateEffects(w, cur, s))
                    /\ UNCHANGED <<cur, mounts>>
               ELSE /\ mounts < MaxMounts
                    /\ Install(mountEffects(w, mounts + 1, s))
                    /\ cur' = mounts + 1
                    /\ mounts' = mounts + 1
          ELSE /\ Install(IF cur # 0 THEN unmountEffects(w, cur) ELSE w)
               /\ cur' = 0
               /\ UNCHANGED mounts
    /\ view' = ViewOf(state)
    /\ UNCHANGED <<probe, upstream, nCaptcha, nRes>>

\* client.completeCaptcha() resolves with a verified token
CaptchaResolves(g) ==
    /\ searchProc[g].pc = "captcha"
    /\ searchIsRunningRef[g] => nCaptcha < upstream.searches
    /\ nCaptcha' = IF searchIsRunningRef[g] THEN nCaptcha + 1 ELSE nCaptcha
    /\ Install(searchAfterCaptcha(World, g, -(nCaptcha + 1)))
    /\ UNCHANGED <<probe, upstream, view, cur, mounts, nRes>>

\* client.completeCaptcha() rejects
CaptchaRejects(g) ==
    /\ searchProc[g].pc = "captcha"
    /\ searchIsRunningRef[g] => nCaptcha < upstream.searches
    /\ nCaptcha' = IF searchIsRunningRef[g] THEN nCaptcha + 1 ELSE nCaptcha
    /\ \E error \in CaptchaErrors : Install(searchCatch(World, g, error))
    /\ UNCHANGED <<probe, upstream, view, cur, mounts, nRes>>

\* client.checkSlots() resolves
CheckSlotsResolves(g) ==
    /\ searchProc[g].pc = "checkSlots"
    /\ ~searchProc[g].aborted
    /\ \E slots \in SlotLists, token \in ResponseTokens(-searchProc[g].captchaToken) :
         LET result == CheckSlotsResult(slots, token, ConsulateId)
             w == searchAfterCheckSlots(World, g, result)
         IN Install([w EXCEPT !.results = @ \cup {result}])
    /\ UNCHANGED <<probe, upstream, view, cur, mounts, nCaptcha, nRes>>

\* client.checkSlots() rejects: with the client's timeout error when aborted
CheckSlotsRejects(g) ==
    /\ searchProc[g].pc = "checkSlots"
    /\ \E error \in (IF searchProc[g].aborted THEN {TimeoutError} ELSE CheckSlotsErrors) :
         Install(searchCatch(World, g, error))
    /\ UNCHANGED <<probe, upstream, view, cur, mounts, nCaptcha, nRes>>

\* the sleep that ends a search iteration is over
SearchSleepEnds(g) ==
    /\ searchProc[g].pc = "sleep"
    /\ Install(searchLoopTop(World, g))
    /\ UNCHANGED <<probe, upstream, view, cur, mounts, nCaptcha, nRes>>

\* client.getConsulateDetails() resolves
DetailsResolves(g) ==
    /\ pendingDetails[g] > 0
    /\ Install(detailsThen([World EXCEPT !.details[g] = @ - 1], g))
    /\ UNCHANGED <<probe, upstream, view, cur, mounts, nCaptcha, nRes>>

\* client.getConsulateDetails() rejects
DetailsRejects(g) ==
    /\ pendingDetails[g] > 0
    /\ Install(detailsCatch([World EXCEPT !.details[g] = @ - 1], g, DetailsError))
    /\ UNCHANGED <<probe, upstream, view, cur, mounts, nCaptcha, nRes>>

\* the request has settled: it leaves the set of requests in flight, and a
\* controller of a settled request is as good as null (abort() does nothing)
Settled(w, c) ==
    [w EXCEPT !.calls = @ \ {c},
              !.rAbort[c.gen] = IF @ = c.id THEN 0 ELSE @]

\* client.createReservation() resolves with a ticket
ReservationResolves(c) ==
    /\ c \in calls
    /\ ~c.aborted
    /\ nRes < upstream.reservations
    /\ nRes' = nRes + 1
    /\ Install(resAfterSuccess(Settled(World, c), c.gen, nRes + 1))
    /\ UNCHANGED <<probe, upstream, view, cur, mounts, nCaptcha>>

\* client.createReservation() rejects: with the client's timeout error when aborted
ReservationRejects(c) ==
    /\ c \in calls
    /\ ~c.aborted => nRes < upstream.reservations
    /\ nRes' = IF c.aborted THEN nRes ELSE nRes + 1
    /\ \E error \in (IF c.aborted THEN {TimeoutError} ELSE upstream.reservationErrors) :
         Install(resCatch(Settled(World, c), c.gen, error))
    /\ UNCHANGED <<probe, upstream, view, cur, mounts, nCaptcha>>

\* sleep(RETRY_DELAY) / sleep(SLOT_SWITCH_DELAY) is over
ErrorSleepEnds(g) ==
    /\ sleepers[g].err > 0
    /\ Install(resAfterErrorSleep([World EXCEPT !.sleepers[g].err = @ - 1], g))
    /\ UNCHANGED <<probe, upstream, view, cur, mounts, nCaptcha, nRes>>

\* sleep(100) of the booking loop is over
LoopSleepEnds(g) ==
    /\ sleepers[g].loop > 0
    /\ Install(resLoopTop([World EXCEPT !.sleepers[g].loop = @ - 1], g))
    /\ UNCHANGED <<probe, upstream, view, cur, mounts, nCaptcha, nRes>>

Next ==
    \/ SelectParams
    \/ Commit
    \/ \E g \in Gens : CaptchaResolves(g)
    \/ \E g \in Gens : CaptchaRejects(g)
    \/ \E g \in Gens : CheckSlotsResolves(g)
    \/ \E g \in Gens : CheckSlotsRejects(g)
    \/ \E g \in Gens : SearchSleepEnds(g)
    \/ \E g \in Gens : DetailsResolves(g)
    \/ \E g \in Gens : DetailsRejects(g)
    \/ \E c \in calls : ReservationResolves(c)
    \/ \E c \in calls : ReservationRejects(c)
    \/ \E g \in Gens : ErrorSleepEnds(g)
    \/ \E g \in Gens : LoopSleepEnds(g)

Spec == Init /\ [][Next]_vars


\* Every timer fires, every request is answered or times out, and React commits
\* every pending render.
Fairness ==
    /\ WF_vars(Commit)
    /\ \A g \in Gens :
         /\ WF_vars(CaptchaResolves(g) \/ CaptchaRejects(g))
         /\ WF_vars(CheckSlotsResolves(g) \/ CheckSlotsRejects(g))
         /\ WF_vars(SearchSleepEnds(g))
         /\ WF_vars(DetailsResolves(g) \/ DetailsRejects(g))
         /\ WF_vars(ErrorSleepEnds(g))
         /\ WF_vars(LoopSleepEnds(g))
    /\ WF_vars(\E c \in calls : ReservationResolves(c) \/ ReservationRejects(c))

\* The same program in a run where the upstream answers one search more and
\* one reservation less, and rejects no createReservation request (a request
\* fails only when it was aborted).
LongSearchInit ==
    /\ InitHooks
    /\ upstream = Upstream(MaxSearch + 1, MaxRes - 1, FALSE, {})
    /\ probe = NoProbe

LongSearchSpec == LongSearchInit /\ [][Next]_vars

\* The same program in a run where checkSlots may answer without a token.
EmptyTokenInit ==
    /\ InitHooks
    /\ upstream = Upstream(MaxSearch, MaxRes - 1, TRUE, ReservationErrors)
    /\ probe = NoProbe

EmptyTokenSpec == EmptyTokenInit /\ [][Next]_vars

FairSpec == Spec /\ Fairness

\* A fair run in which the upstream answers one search and one reservation.
ShortInit ==
    /\ InitHooks
    /\ upstream = Upstream(MaxSearch - 1, MaxRes - 1, FALSE, ReservationErrors)
    /\ probe = NoProbe

ShortFairSpec == ShortInit /\ [][Next]_vars /\ Fairness

\* ---------------------------------------------------------------- one failure
\* The values a catch block can receive: the error classes of error-classifier.ts,
\* Errors with any name and message, objects with a reason, anything else.
ErrorInputs ==
    {SlotUnavailableError}
    \cup {ApiError(r) : r \in Reasons}
    \cup {ErrorValue("Error", "", n, m) :
              n \in {"Error", "TimeoutError", "AbortError"},
              m \in {f \in SUBSET Fragments : Cardinality(f) <= MaxFragments}}
    \cup {ErrorValue("Object", r, "", {}) : r \in Reasons \cup {""}}
    \cup {ErrorValue("NonObject", "", "", {})}

engineVars ==
    <<state, dirty, view, cur, mounts, stateRef, phaseRef, searchIsRunningRef,
      searchAbortRef, searchProc, resIsRunningRef, resAbortRef, calls, sleepers,
      pendingDetails, nCaptcha, nRes, results, nSuccess, firstResult, hardSeen,
      upstream>>

\* either a request with its outcome, or a value already thrown
ClassifyInit ==
    /\ InitEngine
    /\ probe \in
         {[NoProbe EXCEPT !.stage = "answered", !.op = op, !.outcome = o] :
              op \in Operations, o \in Outcomes}
         \cup {[NoProbe EXCEPT !.stage = "thrown", !.error = e] : e \in ErrorInputs}

\* the client operation throws
ClientRaises ==
    /\ probe.stage = "answered"
    /\ ClientError(probe.op, probe.outcome) # NoError
    /\ probe' = [probe EXCEPT !.stage = "thrown",
                              !.error = ClientError(probe.op, probe.outcome)]
    /\ UNCHANGED engineVars

\* the client operation returns
ClientReturns ==
    /\ probe.stage = "answered"
    /\ ClientError(probe.op, probe.outcome) = NoError
    /\ probe' = [probe EXCEPT !.stage = "returned"]
    /\ UNCHANGED engineVars

\* the catch block of the loop that issued the call classifies the error
Classify ==
    /\ probe.stage = "thrown"
    /\ probe' = [probe EXCEPT
                    !.stage = "classified",
                    !.type = classifyError(probe.error),
                    !.hard = isHardRateLimit(probe.error),
                    !.branch = IF probe.op = "createReservation"
                               THEN reservationErrorBranch(probe.error)
                               ELSE searchErrorBranch(probe.error)]
    /\ UNCHANGED engineVars

ClassifyNext == ClientRaises \/ ClientReturns \/ Classify

ClassifySpec == ClassifyInit /\ [][ClassifyNext]_vars

\* ------------------------------------------------------------ one dispatch
\* The reducer alone, driven by the actions the hooks dispatch, in the order
\* the hooks can dispatch them.  probe records the action and the state it
\* was applied to.
ReducerSlotLists ==
    {<<>>, <<Slot(1)>>, <<Slot(1), Slot(2)>>, <<Slot(1), Slot(2), Slot(3)>>,
     <<Slot(0), Slot(1), Slot(2)>>}

\* tokens a checkSlots response may carry; the upstream may repeat one
ReducerTokens == {1, 2}

ReducerActions ==
    {Action("SET_PARAMS"), Action("START_SEARCH"), Action("TRY_NEXT_SLOT")}
    \cup {[type |-> "UPDATE_SEARCH", slots |-> sl, token |-> tk,
           checkSlotsResult |-> CheckSlotsResult(sl, tk, ConsulateId)] :
              sl \in ReducerSlotLists, tk \in ReducerTokens}
    \cup {[type |-> "START_RESERVATION", consulateDetails |-> TRUE]}
    \cup {[type |-> "RESERVATION_SUCCESS", result |-> 1]}

\* when the hooks can dispatch an action: the parameter form dispatches
\* SET_PARAMS and START_SEARCH, the search loop runs after START_SEARCH, the
\* start effect of useReservation needs slots, the booking loop runs after
\* START_RESERVATION
Dispatchable(s, a) ==
    CASE a.type = "SET_PARAMS" -> s.phase = "params" /\ ~s.params
      [] a.type = "START_SEARCH" -> s.phase = "params" /\ s.params
      [] a.type = "UPDATE_SEARCH" -> s.phase # "params"
      [] a.type = "START_RESERVATION" ->
             s.phase # "params" /\ s.search.checkSlotsResult.defined
      [] a.type \in {"TRY_NEXT_SLOT", "RESERVATION_SUCCESS"} ->
             s.reservation.consulateDetails
      [] OTHER -> FALSE

hookVars ==
    <<dirty, view, cur, mounts, stateRef, phaseRef, searchIsRunningRef,
      searchAbortRef, searchProc, resIsRunningRef, resAbortRef, calls, sleepers,
      pendingDetails, nCaptcha, nRes, results, nSuccess, firstResult, hardSeen,
      upstream>>

Reduce ==
    \E a \in ReducerActions :
        /\ Dispatchable(state, a)
        /\ state' = appReducer(state, a)
        /\ probe' = [stage |-> "reduced", action |-> a, before |-> state]
        /\ UNCHANGED hookVars

ReducerSpec == Init /\ [][Reduce]_vars

\* ------------------------------------------------------------- the backoff
\* The delay the catch block of runSearch sleeps, and captchaFailureCountRef.
\* probe records the counter, the class of the last failure, the delay slept
\* after it and the delay slept after the failure before.
BASE_DELAY == 500

SOFT_RATE_LIMIT_DELAY == 3000

CAPTCHA_FAILURE_DELAY == 2000

\* CAPTCHA_BACKOFF_MULTIPLIER = 1.5, as a fraction
CAPTCHA_BACKOFF_MULTIPLIER_NUM == 3

CAPTCHA_BACKOFF_MULTIPLIER_DEN == 2

CAPTCHA_MAX_DELAY == 10000

JITTER_MAX == 1000

\* consecutive failures followed
MaxFailures == 6

\* values of getRandomJitter(): Math.random() * JITTER_MAX lies in [0, JITTER_MAX)
Jitters == {0, JITTER_MAX \div 2, JITTER_MAX - 1}

RECURSIVE Pow(_, _)
Pow(b, n) == IF n = 0 THEN 1 ELSE b * Pow(b, n - 1)

\* Math.min(CAPTCHA_FAILURE_DELAY * CAPTCHA_BACKOFF_MULTIPLIER ** (count - 1),
\* CAPTCHA_MAX_DELAY); the quotient is exact whenever it is below the maximum
captchaBackoffFlat(count) == CAPTCHA_FAILURE_DELAY

captchaBackoffDelay(count) ==
    LET num == CAPTCHA_FAILURE_DELAY * Pow(CAPTCHA_BACKOFF_MULTIPLIER_NUM, count - 1)
        den == Pow(CAPTCHA_BACKOFF_MULTIPLIER_DEN, count - 1)
    IN IF num <= CAPTCHA_MAX_DELAY * den THEN num \div den ELSE CAPTCHA_MAX_DELAY

\* "Determine delay based on error type": the new counter and the delay
searchBackoff(count, errorType, jitter) ==
    CASE errorType = "captcha" ->
             [count |-> count + 1, delay |-> captchaBackoffDelay(count + 1) + jitter]
      [] errorType = "rate_limit_soft" ->
             [count |-> 0, delay |-> SOFT_RATE_LIMIT_DELAY + jitter * 2]
      [] errorType \in {"timeout", "network"} ->
             [count |-> 0, delay |-> BASE_DELAY * 2 + jitter]
      [] OTHER -> [count |-> 0, delay |-> BASE_DELAY]

\* what the search loop can catch: the errors of the CAPTCHA requests and of
\* checkSlots
SearchFailures ==
    ({ClientError(op, o) : op \in {"requestCaptcha", "verifyCaptcha", "checkSlots"},
                           o \in Outcomes} \ {NoError})
    \cup CaptchaErrors \cup CheckSlotsErrors

BackoffInit ==
    /\ InitEngine
    /\ probe = [stage |-> "backoff", count |-> 0, before |-> 0, type |-> "",
                delay |-> 0, prev |-> 0]

\* completeCaptcha resolved: "Reset CAPTCHA failure count on success"
BackoffCaptchaSolved ==
    /\ probe.stage = "backoff"
    /\ probe' = [probe EXCEPT !.count = 0, !.before = probe.count, !.type = "solved"]
    /\ UNCHANGED engineVars

\* the catch block, for a failure that is not a hard rate limit
BackoffFailure ==
    /\ probe.stage = "backoff"
    /\ probe.count < MaxFailures
    /\ \E error \in SearchFailures, jitter \in Jitters :
         /\ ~isHardRateLimit(error)
         /\ LET next == searchBackoff(probe.count, classifyError(error), jitter)
            IN probe' = [stage |-> "backoff", count |-> next.count,
                         before |-> probe.count, type |-> classifyError(error),
                         delay |-> next.delay, prev |-> probe.delay]
    /\ UNCHANGED engineVars

\* the catch block, for a hard rate limit: stop() resets the counter, the loop ends
BackoffStop ==
    /\ probe.stage = "backoff"
    /\ \E error \in SearchFailures :
         /\ isHardRateLimit(error)
         /\ probe' = [probe EXCEPT !.stage = "stopped", !.count = 0,
                                   !.before = probe.count,
                                   !.type = classifyError(error)]
    /\ UNCHANGED engineVars

BackoffNext == BackoffCaptchaSolved \/ BackoffFailure \/ BackoffStop

BackoffSpec == BackoffInit /\ [][BackoffNext]_vars

\* ---------------------------------------------------------------- properties
\* a createReservation request is issued in this step
NewReservationCall == \E c \in calls' : \A d \in calls : d.id # c.id

\* a CAPTCHA solve is requested in this step
NewCaptchaCall ==
    \E g \in Gens : searchProc'[g].pc = "captcha" /\ searchProc[g].pc # "captcha"

\* a checkSlots request is issued in this step
NewCheckSlotsCall ==
    \E g \in Gens : searchProc'[g].pc = "checkSlots" /\ searchProc[g].pc # "checkSlots"

\* the instance's runSearch is inside its while loop
SearchLoopActive(g) == searchProc[g].pc \in {"captcha", "checkSlots", "sleep"}

\* booking loops alive: each is suspended in a sleep or in createReservation
BookingLoops ==
    LET f[n \in 0..MaxMounts] ==
            IF n = 0 THEN 0 ELSE f[n - 1] + sleepers[n].loop + sleepers[n].err
    IN Cardinality(calls) + f[MaxMounts]

LoopsDone == (\A g \in Gens : ~SearchLoopActive(g)) /\ BookingLoops = 0

\* no hook sets its isRunningRef in this step
NoLoopStarts ==
    \A g \in Gens : /\ searchIsRunningRef'[g] => searchIsRunningRef[g]
                    /\ resIsRunningRef'[g] => resIsRunningRef[g]

\* the order params < searching < booking < success
Rank(phase) ==
    CASE phase = "params" -> 0
      [] phase = "searching" -> 1
      [] phase = "booking" -> 2
      [] phase = "success" -> 3

\* C1: once phase is success no step changes it.
C1_SuccessAbsorbing ==
    [][state.phase = "success" => state'.phase = "success"]_vars

\* C2: at most one RESERVATION_SUCCESS is applied, and reservation.result is the
\* result of the first successful createReservation (undefined before it).
C2_OneSuccessFirstResult ==
    /\ nSuccess <= 1
    /\ state.reservation.result = firstResult

\* C3: at most one createReservation request is in flight (requests whose
\* controller has been aborted are not even counted).
C3_OneCallInFlight == Cardinality({c \in calls : ~c.aborted}) <= 1

\* C4: the token of every createReservation request is the token that the most
\* recent UPDATE_SEARCH had published to the engine state when it was issued.
C4_TokenIsPublishedToken == \A c \in calls : c.token = c.published

\* C5: the date and the token of every createReservation request come from one
\* checkSlots result: some result carries that token and has that date at the
\* request's index among its dated slots.
C5_DateAndTokenFromOneResult ==
    \A c \in calls :
        \E r \in results :
            /\ r.token = c.token
            /\ c.slotIndex < Len(DatedSlots(r.slots))
            /\ DatedSlots(r.slots)[c.slotIndex + 1].date = c.date

\* C5's case: a request is in flight while another result, with another token,
\* has a different date at the request's index.
C5_Witness ==
    \E c \in calls :
        \E r \in results :
            /\ r.token # c.token
            /\ c.slotIndex < Len(DatedSlots(r.slots))
            /\ DatedSlots(r.slots)[c.slotIndex + 1].date # c.date

\* C6: once a loop has handled a hard rate limit no CAPTCHA, checkSlots or
\* createReservation request is issued any more, and handling it leaves phase
\* as it was.
C6_HardLimitStopsBothLoops ==
    [][/\ hardSeen => ~(NewCaptchaCall \/ NewCheckSlotsCall \/ NewReservationCall)
       /\ (~hardSeen /\ hardSeen') => state'.phase = state.phase]_vars

\* C7: after RESERVATION_SUCCESS both loops eventually end, and no loop is
\* started afterwards.
C7_LoopsEndAfterSuccess ==
    /\ [](nSuccess > 0 => <>LoopsDone)
    /\ [][nSuccess > 0 => NoLoopStarts]_vars

\* C8: after RESERVATION_SUCCESS no createReservation request is issued.
C8_NoCallAfterSuccess == [][nSuccess > 0 => ~NewReservationCall]_vars

\* C9: after RESERVATION_SUCCESS search.slots, search.currentToken and
\* search.checkSlotsResult never change.
C9_SearchFrozenAfterSuccess ==
    [][nSuccess > 0 =>
          /\ state'.search.slots = state.search.slots
          /\ state'.search.currentToken = state.search.currentToken
          /\ state'.search.checkSlotsResult = state.search.checkSlotsResult]_vars

\* C10: phase never moves backwards in params < searching < booking < success.
C10_PhaseMonotone == [][Rank(state'.phase) >= Rank(state.phase)]_vars

\* C11: search.isRunning implies that phase is searching or booking.
C11_SearchRunningPhase ==
    state.search.isRunning => state.phase \in {"searching", "booking"}

\* C11's case: the search is marked running while booking, after actions of
\* both loops have been applied.
C11_Witness ==
    /\ state.search.isRunning
    /\ state.phase = "booking"
    /\ state.reservation.attempts > 0

\* C12: reservation.isRunning implies phase = booking and a non-empty search.slots.
C12_BookingRunningPhaseAndSlots ==
    state.reservation.isRunning =>
        state.phase = "booking" /\ Len(state.search.slots) > 0

\* C13: phase = success implies that reservation.result is set and that neither
\* search.isRunning nor reservation.isRunning is true.
C13_SuccessShape ==
    state.phase = "success" =>
        /\ state.reservation.result # 0
        /\ ~state.search.isRunning
        /\ ~state.reservation.isRunning

\* C13's case: RESERVATION_SUCCESS has been applied and phase is success.
C13_Witness == state.phase = "success" /\ nSuccess > 0

\* C14: reservation.currentSlotIndex < max(1, |search.slots|).
C14_SlotIndexInRange ==
    state.reservation.currentSlotIndex <
        (IF Len(state.search.slots) > 1 THEN Len(state.search.slots) ELSE 1)

\* C15: classifyError returns one of the eight error types for every value.
C15_ClassifyTotal ==
    probe.stage = "classified" => probe.type \in ErrorTypes

\* C15's case: a value that is no Error at all has been classified.
C15_Witness == probe.stage = "classified" /\ probe.error.cls = "NonObject"

\* C17: a timeout or cancellation of requestCaptcha, verifyCaptcha, checkSlots or
\* createReservation reaches the loop as an error that classifyError maps to timeout.
C17_AbortIsTimeout ==
    (probe.stage = "classified" /\ probe.outcome.kind \in {"AbortError", "TimeoutError"})
        => probe.type = "timeout"

\* C17's case: a cancelled CAPTCHA request has been classified.
C17_Witness ==
    /\ probe.stage = "classified"
    /\ probe.outcome.kind = "AbortError"
    /\ probe.op = "requestCaptcha"

\* C18: a 2xx answer of createReservation without a ticket is classified
\* slot_unavailable and makes the booking loop apply TRY_NEXT_SLOT.
C18_NoTicketIsSlotUnavailable ==
    (/\ probe.stage = "classified"
     /\ probe.op = "createReservation"
     /\ probe.outcome.kind = "noPayload")
        => probe.type = "slot_unavailable" /\ probe.branch = "next_slot"

\* C19: a non-2xx answer of checkSlots or createReservation whose body carries
\* LIMIT_Z_JEDNEGO_IP_PRZEKROCZONY is classified rate_limit_hard and stops the loop.
C19_LimitReasonIsHard ==
    (/\ probe.stage = "classified"
     /\ probe.op \in {"checkSlots", "createReservation"}
     /\ probe.outcome.kind = "http"
     /\ probe.outcome.reason = "LIMIT_Z_JEDNEGO_IP_PRZEKROCZONY")
        => probe.type = "rate_limit_hard" /\ probe.branch = "stop"

\* a failure of the search loop is handled in this step; a cancelled checkSlots
\* after RESERVATION_SUCCESS is left out
SearchFailureHandled ==
    \E g \in Gens :
        \/ CaptchaRejects(g)
        \/ CheckSlotsRejects(g) /\ ~(searchProc[g].aborted /\ nSuccess > 0)

\* a failure of the booking loop is handled in this step; a cancelled
\* createReservation after RESERVATION_SUCCESS is left out
BookingFailureHandled ==
    \E c \in calls : ReservationRejects(c) /\ ~(c.aborted /\ nSuccess > 0)

\* a failure is handled by a search loop that stop() has not stopped
RunningSearchFailureHandled ==
    \E g \in Gens :
        /\ searchIsRunningRef[g]
        /\ CaptchaRejects(g) \/ CheckSlotsRejects(g)

C20_SuccessFreezesState == [][state.phase = "success" => state' = state]_vars

\* the dispatch just applied, in the one-dispatch specification
Reduced(type) == probe.stage = "reduced" /\ probe.action.type = type

\* C21: after UPDATE_SEARCH, reservation.currentSlotIndex is 0 if the token
\* differs from the stored one or the new slot count is not greater than the
\* previous index, and is the previous index otherwise.
C21_IndexResetOrUnchanged ==
    Reduced("UPDATE_SEARCH") =>
        LET before == probe.before.reservation.currentSlotIndex
            slotCount == countAvailableSlots(probe.action.slots)
        IN state.reservation.currentSlotIndex =
               IF probe.before.search.currentToken # probe.action.token
                  \/ slotCount <= before
               THEN 0 ELSE before

\* C22: a createReservation failure whose upstream reason is TERMIN_ZAJETY is
\* classified slot_unavailable and the booking loop moves to the next slot.
C22_SlotTakenIsSlotUnavailable ==
    (/\ probe.stage = "classified"
     /\ probe.op = "createReservation"
     /\ probe.outcome.reason = "TERMIN_ZAJETY")
        => probe.type = "slot_unavailable" /\ probe.branch = "next_slot"

\* search.errors holds a rate_limit_hard entry
HardLimitLogged ==
    \E i \in 1..Len(state.search.errors) : state.search.errors[i] = "rate_limit_hard"

\* C23: once search.errors holds a rate_limit_hard entry, no search attempt is
\* counted and no entry is appended to search.errors (so the log never holds
\* two rate_limit_hard entries).
C23_NoSearchAfterHardLimit ==
    [][HardLimitLogged =>
          /\ state'.search.attempts = state.search.attempts
          /\ state'.search.errors = state.search.errors]_vars

\* C24: the step in which a loop handles a hard rate limit applies STOP_ALL:
\* after it search.isRunning and reservation.isRunning are both false.
C24_HardLimitAppliesStopAll ==
    [][(~hardSeen /\ hardSeen') =>
          /\ ~state'.search.isRunning
          /\ ~state'.reservation.isRunning]_vars

\* an in-flight createReservation request is aborted in this step
ReservationCallAborted ==
    \E c \in calls : ~c.aborted /\ [c EXCEPT !.aborted = TRUE] \in calls'

\* C25: an in-flight createReservation request is aborted only once a
\* reservation has succeeded or a loop has handled a hard rate limit (the
\* user cannot stop the loops here); a commit of START_RESERVATION or of a changed slot count
\* aborts none.
C25_AbortOnlyOnSuccessOrHardLimit ==
    [][ReservationCallAborted => nSuccess' > 0 \/ hardSeen']_vars

\* C26: a search loop that stop() has stopped has no live request: whichever
\* step was in flight, the CAPTCHA step or checkSlots, has been aborted.
C26_StopAbortsAnyStep ==
    \A g \in Gens :
        (searchProc[g].pc \in {"captcha", "checkSlots"} /\ ~searchIsRunningRef[g])
            => searchProc[g].aborted

\* the state's checkSlots result has dated slots and no token, and the search
\* token is the CAPTCHA token published in its place
FallbackPublished(s) ==
    /\ s.search.checkSlotsResult.defined
    /\ s.search.checkSlotsResult.token = NoToken
    /\ countAvailableSlots(s.search.slots) > 0
    /\ s.search.currentToken < 0

\* C27: a checkSlots result without a token is published with the verified
\* CAPTCHA token as search token, and the first iteration of a booking loop
\* that sees such a result (parameters set, slot index in range) issues
\* createReservation with that token.
C27_FallbackTokenUsed ==
    /\ [](state.search.checkSlotsResult.defined
             /\ state.search.checkSlotsResult.token = NoToken
          => state.search.currentToken < 0)
    /\ [][\A g \in Gens :
            (/\ DetailsResolves(g)
             /\ ~resIsRunningRef[g]
             /\ stateRef[g].phase # "success"
             /\ stateRef[g].params
             /\ FallbackPublished(stateRef[g])
             /\ stateRef[g].reservation.currentSlotIndex
                    < countAvailableSlots(stateRef[g].search.slots))
            => \E c \in calls' \ calls :
                   c.token = stateRef[g].search.currentToken]_vars

\* the booking side of the instance has a step pending: a getConsulateDetails
\* request, a createReservation request, or a loop iteration asleep
BookingPending(g) ==
    \/ pendingDetails[g] > 0
    \/ \E c \in calls : c.gen = g
    \/ sleepers[g].loop > 0
    \/ sleepers[g].err > 0

\* C28: whenever the committed state has a dated slot in search.slots, phase is
\* not success and no loop has handled a hard rate limit, the booking side is
\* on its way to a createReservation request: it has a step pending.  (With
\* none pending, no request is issued until a dependency of the start effect
\* changes.)
C28_SlotsLeadToReservationCall ==
    (/\ cur # 0
     /\ ~dirty
     /\ countAvailableSlots(state.search.slots) > 0
     /\ state.phase # "success"
     /\ ~hardSeen)
        => BookingPending(cur)

\* the mounted search loop has caught a failure that is not a hard rate limit
\* and has not started an attempt since the last log entry was made or since
\* its last sleep began
SearchFailedSoftly(g) ==
    /\ cur = g
    /\ state.phase \in {"searching", "booking"}
    /\ searchProc[g].pc \in {"sleep", "done"}
    /\ state.search.errors # <<>>
    /\ state.search.errors[Len(state.search.errors)] # "rate_limit_hard"

\* C29: after a search iteration failed with a class other than
\* rate_limit_hard, the loop eventually starts another attempt, unless
\* MonitoringView is unmounted or phase becomes success first.
C29_SearchRetriesAfterFailure ==
    \A g \in Gens :
        SearchFailedSoftly(g)
            ~> (searchProc[g].pc = "captcha" \/ cur # g \/ state.phase = "success")

\* C29's case: a failure that is not a hard rate limit is in the log and the
\* mounted loop has started its second attempt.
C29_Witness ==
    /\ cur # 0
    /\ searchProc[cur].pc = "captcha"
    /\ state.search.attempts = 2
    /\ state.search.errors # <<>>
    /\ state.search.errors[Len(state.search.errors)] # "rate_limit_hard"

\* the booking loop has just logged a slot_unavailable failure
SlotUnavailableLogged ==
    /\ Len(state'.reservation.errors) = Len(state.reservation.errors) + 1
    /\ state'.reservation.errors[Len(state'.reservation.errors)] = "slot_unavailable"

\* With n >= 1 dated slots in search.slots, handling a slot_unavailable
\* failure moves reservation.currentSlotIndex to (currentSlotIndex + 1) mod n
\* and leaves the slot list alone.
TryNextSlotWraps ==
    [][(SlotUnavailableLogged /\ countAvailableSlots(state.search.slots) >= 1) =>
          /\ state'.search.slots = state.search.slots
          /\ state'.reservation.currentSlotIndex =
                 (state.reservation.currentSlotIndex + 1)
                     % countAvailableSlots(state.search.slots)]_vars

\* C30: with n >= 1 dated slots in search.slots, a slot_unavailable failure of
\* the request for the slot at index i makes (i + 1) mod n the current index:
\* consecutive failures visit the slots in increasing order and wrap to 0
\* after n - 1.
C30_SlotsVisitedInOrder ==
    [][\A c \in calls :
          (/\ c \notin calls'
           /\ SlotUnavailableLogged
           /\ countAvailableSlots(state.search.slots) >= 1)
          => /\ state'.search.slots = state.search.slots
             /\ state'.reservation.currentSlotIndex =
                    (c.slotIndex + 1) % countAvailableSlots(state.search.slots)]_vars

\* C31: START_RESERVATION is applied only to a state whose phase is searching
\* and whose search.slots is non-empty.
C31_StartReservationGuarded ==
    [][\A g \in Gens :
          DetailsResolves(g) =>
              state.phase = "searching" /\ state.search.slots # <<>>]_vars

\* createReservation requests issued in this step (at most one)
IssuedNow == IF NewReservationCall THEN 1 ELSE 0

\* C32: reservation.attempts counts the createReservation requests issued
\* since the last START_RESERVATION: START_RESERVATION restarts the count, every
\* request issued adds one, and nothing else changes it.
C32_AttemptsCountCalls ==
    [][state'.reservation.attempts =
          IF \E g \in Gens : DetailsResolves(g)
          THEN IssuedNow
          ELSE state.reservation.attempts + IssuedNow]_vars

\* C32's case: one slot_unavailable failure, then a success, with two requests
\* counted.
C32_Witness ==
    /\ state.phase = "success"
    /\ state.reservation.errors = <<"slot_unavailable">>
    /\ state.reservation.attempts = 2

\* C33: over consecutive captcha-class failures of the search loop the delay
\* slept does not decrease, whatever the jitter, and no such delay exceeds
\* 12000 + 1000 ms; stated for the first five failures in a row.
C33_CaptchaBackoffMonotone ==
    (probe.stage = "backoff" /\ probe.type = "captcha" /\ probe.count <= 5) =>
        /\ probe.delay <= 12000 + 1000
        /\ probe.before >= 1 => probe.prev <= probe.delay

C33_Witness ==
    /\ probe.stage = "backoff"
    /\ probe.type = "captcha"
    /\ probe.count = 5
    /\ probe.prev < probe.delay

\* C34: the counter of consecutive CAPTCHA failures grows by one on a captcha
\* failure, returns to 0 only on a solved CAPTCHA or a rate_limit_soft,
\* network or timeout failure, and is left alone by an api, slot_unavailable
\* or unknown failure.
C34_CounterFrame ==
    probe.stage \in {"backoff", "stopped"} =>
        /\ probe.type = "captcha" => probe.count = probe.before + 1
        /\ probe.type \in {"api", "slot_unavailable", "unknown"} =>
               probe.count = probe.before
        /\ (probe.count = 0 /\ probe.before > 0) =>
               probe.type \in {"solved", "rate_limit_soft", "network", "timeout"}

\* C35: isHardRateLimit holds of a failure value exactly when classifyError
\* puts it in class rate_limit_hard.
C35_HardLimitAgreesWithClass ==
    probe.stage = "classified" =>
        (probe.hard <=> probe.type = "rate_limit_hard")

\* a CAPTCHA solve or a checkSlots request of the search loop is outstanding
SearchInFlight(g) == searchProc[g].pc \in {"captcha", "checkSlots"}

\* C36: at most one search loop is active: never two CAPTCHA solves or
\* checkSlots requests of the search hook outstanding at once.
C36_OneSearchLoop == Cardinality({g \in Gens : SearchInFlight(g)}) <= 1

\* the booking hook's stop() runs in this step: a request of the hook is
\* aborted (only stop() aborts), or the hook is unmounted with its cleanup
\* registered
ResStopRuns(g) ==
    \/ \E c \in calls : /\ c.gen = g
                        /\ ~c.aborted
                        /\ [c EXCEPT !.aborted = TRUE] \in calls'
    \/ cur = g /\ cur' # g /\ stateRef[g].phase # "success"

\* C37: when the booking hook's stop() runs, every createReservation request of
\* the hook that was outstanding before and still is, is aborted.
C37_StopAbortsEveryRequest ==
    [][\A g \in Gens :
          ResStopRuns(g) =>
              \A c \in calls' :
                  (c.gen = g /\ \E d \in calls : d.id = c.id) => c.aborted]_vars

\* C38: UPDATE_SEARCH changes only search.slots, search.currentToken,
\* search.checkSlotsResult, search.lastAttempt and
\* reservation.currentSlotIndex; every other field of the state keeps its value.
C38_UpdateSearchFrame ==
    Reduced("UPDATE_SEARCH") =>
        [state EXCEPT
            !.search.slots = probe.before.search.slots,
            !.search.currentToken = probe.before.search.currentToken,
            !.search.checkSlotsResult = probe.before.search.checkSlotsResult,
            !.search.lastAttempt = probe.before.search.lastAttempt,
            !.reservation.currentSlotIndex =
                probe.before.reservation.currentSlotIndex] = probe.before

\* an empty slot list is published while booking, and the phase stays booking
C38_Witness ==
    /\ Reduced("UPDATE_SEARCH")
    /\ probe.before.phase = "booking"
    /\ probe.before.search.slots # <<>>
    /\ probe.action.slots = <<>>
    /\ state.phase = "booking"

\* C39: in every state the reducer produces, if search.slots holds a dated
\* slot then reservation.currentSlotIndex is below the number of dated slots.
C39_IndexBelowDatedSlots ==
    countAvailableSlots(state.search.slots) > 0 =>
        state.reservation.currentSlotIndex < countAvailableSlots(state.search.slots)

\* a shorter list arrives under the same token while the index points beyond it
C39_Witness ==
    /\ Reduced("UPDATE_SEARCH")
    /\ probe.before.search.currentToken = probe.action.token
    /\ countAvailableSlots(state.search.slots) > 0
    /\ probe.before.reservation.currentSlotIndex >=
           countAvailableSlots(state.search.slots)
    /\ state.reservation.currentSlotIndex = countAvailableSlots(state.search.slots) - 1
====
